---- MODULE Spec2Model ----
(***************************************************************************)
(* The Android OptionContainer backend (toga_android/widgets/              *)
(* optioncontainer.py): an ordered list of TogaOption records kept beside  *)
(* a native bottom-navigation menu of limited capacity.                    *)
(*                                                                         *)
(* Python list positions are 0-based; At(s, i) reads position i.           *)
(* The native menu is the external Android Menu: it is modelled by the     *)
(* calls the source makes on it (add, removeItem, setTitle, setEnabled,    *)
(* setIcon, setChecked, isChecked), each taken to act on the item whose    *)
(* handle the source holds, and never to fail.                             *)
(***************************************************************************)
EXTENDS Integers, Sequences, FiniteSets, TLC

\* ---- bounds of the model ------------------------------------------------
MinCapacity == 2      \* smallest max_items the native widget reports
MaxCapacity == 3      \* largest max_items the native widget reports
MaxCalls == 5         \* number of calls made on the option container
MaxChildren == 2      \* number of add calls made on the Cocoa container

\* ---- values ---------------------------------------------------------------
None == 0                         \* Python None, for handles, widgets, indices
NoIcon == "None"                  \* icon=None
Texts == {"a", "b"}                 \* texts given to set_option_text
Icons == {NoIcon, "star"}           \* icons given to set_option_icon
AddTexts == {"a"}                   \* texts given to add_option
AddIcons == {NoIcon}                \* icons given to add_option (icon=None)
DefaultIcon == "OPTION_CONTAINER_DEFAULT_TAB_ICON"
NotRaised == "none"

VARIABLES
    max_items,      \* self.max_items
    options,        \* self.options: sequence of TogaOption
    menu,           \* native_navigationview.getMenu(): handle -> item
    created,        \* number of native menu items ever created
    widgets,        \* number of content widgets ever handed to add_option
    content,        \* the widget set_content last installed, or None
    calls,          \* number of calls made so far
    in_range,       \* every add_option so far had 0 <= index <= len(options)
    last            \* the last call: op, index, value, raised, warned

vars == <<max_items, options, menu, created, widgets, content, calls, in_range, last>>

\* the state of the Cocoa Container (container.py)
VARIABLES
    children,           \* self.children
    subviews,           \* the subviews of self._impl, in addSubview_ order
    app_set,            \* the widgets whose app was set to the container's
    constraints,        \* self.constraints: Constraint -> native constraint
    native_constraints, \* the constraints of self._impl, in addConstraint_ order
    impl_of,            \* constraint id -> constraint._impl, or None
    made,               \* number of native constraints ever constructed
    clast               \* the last Container call: op, arg, raised

cvars == <<children, subviews, app_set, constraints, native_constraints, impl_of, made, clast>>

allvars == <<vars, cvars>>

\* ---- Python list helpers ------------------------------------------------
At(s, i) == s[i + 1]

Positions(s) == 0 .. (Len(s) - 1)

\* list.insert(index, x): an index past the end appends
list_insert(s, index, x) ==
    LET pos == IF index > Len(s) THEN Len(s) ELSE index
    IN  SubSeq(s, 1, pos) \o <<x>> \o SubSeq(s, pos + 1, Len(s))

\* del list[index]
list_del(s, index) == SubSeq(s, 1, index) \o SubSeq(s, index + 2, Len(s))

\* ---- TogaOption -----------------------------------------------------------
TogaOption(text, icon, widget) ==
    [text |-> text, icon |-> icon, widget |-> widget, enabled |-> TRUE, menu_item |-> None]

\* ---- native menu ----------------------------------------------------------
\* Menu.add(0, 0, order, title): a new item, enabled, unchecked, without icon
MenuAdd(m, h, order, title) ==
    [x \in DOMAIN m \cup {h} |->
        IF x = h
        THEN [order |-> order, title |-> title, enabled |-> TRUE, checked |-> FALSE, icon |-> NoIcon]
        ELSE m[x]]

\* Menu.removeItem(item.getItemId()): every item is created with itemId 0
\* (line 112); the call is taken to remove the item the id was read from
MenuRemove(m, h) == [x \in DOMAIN m \ {h} |-> m[x]]

\* MenuItem.setChecked(True) in the navigation bar's single-choice group
MenuCheck(m, h) == [x \in DOMAIN m |-> [m[x] EXCEPT !.checked = (x = h)]]

\* icon._impl.as_drawable(self, 32), with the default icon for None
as_drawable(icon) == IF icon = NoIcon THEN DefaultIcon ELSE icon

\* a call as recorded in last: the operation, its index argument, its second
\* argument as text ("" when it has none), the exception raised, and whether
\* warnings.warn was called
Call(op, index, value, raised, warned) ==
    [op |-> op, index |-> index, value |-> value, raised |-> raised, warned |-> warned]

bool_text(b) == IF b THEN "True" ELSE "False"

Init ==
    /\ max_items \in MinCapacity .. MaxCapacity
    /\ options = <<>>
    /\ menu = [x \in {} |-> 0]
    /\ created = 0
    /\ widgets = 0
    /\ content = None
    /\ calls = 0
    /\ in_range = TRUE
    /\ last = Call("create", 0, "", NotRaised, FALSE)

\* ---- accessors ------------------------------------------------------------
\* set_option_icon(index, icon) on the list opts and menu m
set_option_icon_on(opts, m, index, icon) ==
    IF index >= Len(opts)
    THEN [options |-> opts, menu |-> m, raised |-> "IndexError"]
    ELSE LET h == At(opts, index).menu_item
             opts1 == [opts EXCEPT ![index + 1].icon = icon]
         IN  IF h # None
             THEN [options |-> opts1,
                   menu |-> [m EXCEPT ![h].icon = as_drawable(icon)],
                   raised |-> NotRaised]
             ELSE [options |-> opts1, menu |-> m, raised |-> NotRaised]

\* _populate_menu_item(index, option), option being the entry at position pos
\* of opts; n items were created before
_populate_menu_item(opts, m, n, index, pos) ==
    LET h == n + 1
        m1 == MenuAdd(m, h, index, At(opts, pos).text)
        opts1 == [opts EXCEPT ![pos + 1].menu_item = h]
        r == set_option_icon_on(opts1, m1, index, At(opts1, pos).icon)
    IN  [options |-> r.options, menu |-> r.menu, created |-> h, raised |-> r.raised]

\* line 106 with the first option read whatever the index
select_option_widget_first(opts, index) == At(opts, 0).widget

\* select_option(index): set_content(option.widget)
select_option_widget(opts, index) == At(opts, index).widget

\* ---- add_option -----------------------------------------------------------
\* line 122 with > written for >=
BeyondCapacity_gt(index) == index > max_items

\* line 122: the new option is beyond the native capacity
BeyondCapacity(index) == index >= max_items

\* line 129: the list now holds more than the native menu can
OverCapacity(opts) == Len(opts) > max_items

\* line 134: the slot whose option is evicted, read after the insert
last_option_slot == max_items - 1

\* line 143 with >= written for ==
IsOnlyOption_ge(opts) == Len(opts) >= 1

\* line 143: the new option is the only one
IsOnlyOption(opts) == Len(opts) = 1

\* the tail of add_option (lines 142-144), after list and menu are settled
AddOptionSelect(opts) ==
    content' = IF IsOnlyOption(opts) THEN select_option_widget(opts, 0) ELSE content

add_option(index, text, icon) ==
    LET w == widgets + 1
        len == Len(options)
        pos == IF index > len THEN len ELSE index
        opts1 == list_insert(options, index, TogaOption(text, icon, w))
    IN  /\ calls < MaxCalls
        /\ calls' = calls + 1
        /\ widgets' = w
        /\ in_range' = (in_range /\ index <= len)
        /\ max_items' = max_items
        /\ IF BeyondCapacity(index)
           THEN /\ options' = opts1
                /\ menu' = menu
                /\ created' = created
                /\ AddOptionSelect(opts1)
                /\ last' = Call("add_option", index, text, NotRaised, TRUE)
           ELSE IF OverCapacity(opts1) /\ At(opts1, last_option_slot).menu_item = None
           THEN \* last_option.menu_item.getItemId() on None
                /\ options' = opts1
                /\ menu' = menu
                /\ created' = created
                /\ content' = content
                /\ last' = Call("add_option", index, text, "AttributeError", TRUE)
           ELSE LET over == OverCapacity(opts1)
                    evicted == At(opts1, last_option_slot).menu_item
                    m1 == IF over THEN MenuRemove(menu, evicted) ELSE menu
                    opts2 == IF over
                             THEN [opts1 EXCEPT ![last_option_slot + 1].menu_item = None]
                             ELSE opts1
                    r == _populate_menu_item(opts2, m1, created, index, pos)
                IN  /\ options' = r.options
                    /\ menu' = r.menu
                    /\ created' = r.created
                    /\ IF r.raised = NotRaised
                       THEN AddOptionSelect(r.options)
                       ELSE content' = content
                    /\ last' = Call("add_option", index, text, r.raised, over)

\* ---- remove_option --------------------------------------------------------
\* line 154 with > written for >=
SlotFreed_gt(opts) == Len(opts) > max_items

\* line 154: enough options remain to fill the native menu
SlotFreed(opts) == Len(opts) >= max_items

remove_option(index) ==
    LET h == At(options, index).menu_item
        m1 == IF h # None THEN MenuRemove(menu, h) ELSE menu
        opts1 == list_del(options, index)
    IN  /\ calls < MaxCalls
        /\ index \in Positions(options)
        /\ calls' = calls + 1
        /\ UNCHANGED <<max_items, widgets, content, in_range>>
        /\ IF SlotFreed(opts1)
           THEN LET r == _populate_menu_item(opts1, m1, created, max_items - 1, max_items - 1)
                IN  /\ options' = r.options
                    /\ menu' = r.menu
                    /\ created' = r.created
                    /\ last' = Call("remove_option", index, "", r.raised, FALSE)
           ELSE /\ options' = opts1
                /\ menu' = m1
                /\ created' = created
                /\ last' = Call("remove_option", index, "", NotRaised, FALSE)

\* ---- select_option and the native selection event --------------------------
select_option(index) ==
    /\ calls < MaxCalls
    /\ index \in Positions(options)
    /\ calls' = calls + 1
    /\ content' = select_option_widget(options, index)
    /\ last' = Call("select_option", index, "", NotRaised, FALSE)
    /\ UNCHANGED <<max_items, options, menu, created, widgets, in_range>>

\* line 45 testing only that the option has an item, not which one
OwnerOf_any(item) ==
    IF \E i \in Positions(options) : At(options, i).menu_item # None
    THEN CHOOSE i \in Positions(options) :
            /\ At(options, i).menu_item # None
            /\ \A j \in Positions(options) : At(options, j).menu_item # None => i <= j
    ELSE -1

\* lines 44-49: the first option owning the item, or None
OwnerOf(item) ==
    IF \E i \in Positions(options) : At(options, i).menu_item = item
    THEN CHOOSE i \in Positions(options) :
            /\ At(options, i).menu_item = item
            /\ \A j \in Positions(options) : At(options, j).menu_item = item => i <= j
    ELSE -1

\* the user taps a native item; the bar checks it when the listener returns
\* True; last.value records what the listener returned
onNavigationItemSelected(item) ==
    /\ calls < MaxCalls
    /\ item \in DOMAIN menu
    /\ calls' = calls + 1
    /\ IF OwnerOf(item) >= 0
       THEN /\ content' = select_option_widget(options, OwnerOf(item))
            /\ menu' = MenuCheck(menu, item)
            /\ last' = Call("onNavigationItemSelected", item, bool_text(TRUE), NotRaised, FALSE)
       ELSE /\ content' = content
            /\ menu' = menu
            /\ last' = Call("onNavigationItemSelected", item, bool_text(FALSE), NotRaised, FALSE)
    /\ UNCHANGED <<max_items, options, created, widgets, in_range>>

\* ---- enabled / text / icon ----------------------------------------------
set_option_enabled(index, enabled) ==
    LET h == At(options, index).menu_item
    IN  /\ calls < MaxCalls
        /\ index \in Positions(options)
        /\ calls' = calls + 1
        /\ options' = [options EXCEPT ![index + 1].enabled = enabled]
        /\ menu' = IF h # None THEN [menu EXCEPT ![h].enabled = enabled] ELSE menu
        /\ last' = Call("set_option_enabled", index, bool_text(enabled), NotRaised, FALSE)
        /\ UNCHANGED <<max_items, created, widgets, content, in_range>>

is_option_enabled(index) ==
    LET option == At(options, index)
    IN  IF option.menu_item # None THEN menu[option.menu_item].enabled ELSE option.enabled

\* set_option_text without line 175: only the native title is set
set_option_text_native_only(index, text) ==
    LET h == At(options, index).menu_item
    IN  /\ calls < MaxCalls
        /\ index \in Positions(options)
        /\ calls' = calls + 1
        /\ options' = options
        /\ menu' = IF h # None THEN [menu EXCEPT ![h].title = text] ELSE menu
        /\ last' = Call("set_option_text", index, text, NotRaised, FALSE)
        /\ UNCHANGED <<max_items, created, widgets, content, in_range>>

set_option_text(index, text) ==
    LET h == At(options, index).menu_item
    IN  /\ calls < MaxCalls
        /\ index \in Positions(options)
        /\ calls' = calls + 1
        /\ options' = [options EXCEPT ![index + 1].text = text]
        /\ menu' = IF h # None THEN [menu EXCEPT ![h].title = text] ELSE menu
        /\ last' = Call("set_option_text", index, text, NotRaised, FALSE)
        /\ UNCHANGED <<max_items, created, widgets, content, in_range>>

get_option_text(index) ==
    LET option == At(options, index)
    IN  IF option.menu_item # None THEN menu[option.menu_item].title ELSE option.text

set_option_icon(index, icon) ==
    LET r == set_option_icon_on(options, menu, index, icon)
    IN  /\ calls < MaxCalls
        /\ index \in Positions(options)
        /\ calls' = calls + 1
        /\ options' = r.options
        /\ menu' = r.menu
        /\ last' = Call("set_option_icon", index, icon, r.raised, FALSE)
        /\ UNCHANGED <<max_items, created, widgets, content, in_range>>

get_option_icon(index) == At(options, index).icon

\* ---- current tab -----------------------------------------------------------
\* the scan of lines 201-204 from position i: the index found, None (-1), or
\* the failure of isChecked() on a None menu_item
RECURSIVE current_tab_scan(_)
current_tab_scan(i) ==
    IF i >= Len(options)
    THEN [raised |-> NotRaised, value |-> -1]
    ELSE IF At(options, i).menu_item = None
    THEN [raised |-> "AttributeError", value |-> -1]
    ELSE IF menu[At(options, i).menu_item].checked
    THEN [raised |-> NotRaised, value |-> i]
    ELSE current_tab_scan(i + 1)

get_current_tab_index == current_tab_scan(0)

\* line 207 with <= written for <
Selectable_le(current_tab_index) == current_tab_index <= max_items

\* line 207
Selectable(current_tab_index) == current_tab_index < max_items

set_current_tab_index(current_tab_index) ==
    /\ calls < MaxCalls
    /\ calls' = calls + 1
    /\ UNCHANGED <<max_items, options, created, widgets, content, in_range>>
    /\ IF Selectable(current_tab_index)
       THEN IF current_tab_index >= Len(options)
            THEN /\ menu' = menu
                 /\ last' = Call("set_current_tab_index", current_tab_index, "", "IndexError", FALSE)
            ELSE IF At(options, current_tab_index).menu_item = None
            THEN /\ menu' = menu
                 /\ last' = Call("set_current_tab_index", current_tab_index, "", "AttributeError", FALSE)
            ELSE /\ menu' = MenuCheck(menu, At(options, current_tab_index).menu_item)
                 /\ last' = Call("set_current_tab_index", current_tab_index, "", NotRaised, FALSE)
       ELSE /\ menu' = menu
            /\ last' = Call("set_current_tab_index", current_tab_index, "", NotRaised, TRUE)

\* ---- the specification ------------------------------------------------------
\* the indices given to add_option: every position of the list, the end, one
\* past the end, and up to max_items on a short list
AddIndices == 0 .. (IF Len(options) + 1 > max_items THEN Len(options) + 1 ELSE max_items)

AddOption ==
    /\ \E index \in AddIndices, text \in AddTexts, icon \in AddIcons :
          add_option(index, text, icon)
    /\ UNCHANGED cvars

RemoveOption ==
    /\ \E index \in Positions(options) : remove_option(index)
    /\ UNCHANGED cvars

SelectOption ==
    /\ \E index \in Positions(options) : select_option(index)
    /\ UNCHANGED cvars

NavigationItemSelected ==
    /\ \E item \in DOMAIN menu : onNavigationItemSelected(item)
    /\ UNCHANGED cvars

SetOptionEnabled ==
    /\ \E index \in Positions(options), enabled \in BOOLEAN :
          set_option_enabled(index, enabled)
    /\ UNCHANGED cvars

SetOptionText ==
    /\ \E index \in Positions(options), text \in Texts :
          set_option_text(index, text)
    /\ UNCHANGED cvars

SetOptionIcon ==
    /\ \E index \in Positions(options), icon \in Icons :
          set_option_icon(index, icon)
    /\ UNCHANGED cvars

SetCurrentTabIndex ==
    /\ \E i \in 0 .. (max_items + 1) : set_current_tab_index(i)
    /\ UNCHANGED cvars

Next ==
    \/ AddOption
    \/ RemoveOption
    \/ SelectOption
    \/ NavigationItemSelected
    \/ SetOptionEnabled
    \/ SetOptionText
    \/ SetOptionIcon
    \/ SetCurrentTabIndex


(***************************************************************************)
(* The Cocoa Container (toga/platform/cocoa/widgets/container.py): child   *)
(* widgets and the layout constraints registered with the native view.     *)
(* A Constraint object is a record with an id (its identity), its attr,    *)
(* its related_attr (NoAttr for None) and its relation.  Multipliers and   *)
(* constants are integers; the module's division is true division, so      *)
(* quotients are exact fractions <<numerator, denominator>> in lowest      *)
(* terms with a positive denominator.                                      *)
(***************************************************************************)
\* ---- fractions --------------------------------------------------------------
Abs(n) == IF n < 0 THEN -n ELSE n

RECURSIVE Gcd(_, _)
Gcd(a, b) == IF b = 0 THEN a ELSE Gcd(b, a % b)

\* n / d with d # 0, in lowest terms
Frac(n, d) ==
    LET g == Gcd(Abs(n), Abs(d))
        sign == IF d < 0 THEN -1 ELSE 1
    IN  <<(sign * n) \div g, (sign * d) \div g>>

\* a // b of Python 2 integers, the division without the __future__ import
floor_division(a, b) ==
    LET f == Frac(a, b) IN <<f[1] \div f[2], 1>>

\* line 1: from __future__ import division makes a / b the exact quotient
true_division(a, b) == Frac(a, b)

\* ---- the toolkit's Attribute and Constraint objects -------------------------
Attr(widget, identifier, multiplier, constant) ==
    [widget |-> widget, identifier |-> identifier,
     multiplier |-> multiplier, constant |-> constant]

NoAttr == Attr(0, "None", 0, 0)      \* related_attr = None

ContainerWidgets == {1, 2}

\* lines 22-35: the keys of _IDENTIFIER and their native attributes
\* (Attribute.BASELINE is commented out)
_IDENTIFIER ==
    [k \in {"None", "LEFT", "RIGHT", "TOP", "BOTTOM", "LEADING", "TRAILING",
            "WIDTH", "HEIGHT", "CENTER_X", "CENTER_Y"} |->
        CASE k = "None" -> "NSLayoutAttributeNotAnAttribute"
          [] k = "LEFT" -> "NSLayoutAttributeLeft"
          [] k = "RIGHT" -> "NSLayoutAttributeRight"
          [] k = "TOP" -> "NSLayoutAttributeTop"
          [] k = "BOTTOM" -> "NSLayoutAttributeBottom"
          [] k = "LEADING" -> "NSLayoutAttributeLeading"
          [] k = "TRAILING" -> "NSLayoutAttributeTrailing"
          [] k = "WIDTH" -> "NSLayoutAttributeWidth"
          [] k = "HEIGHT" -> "NSLayoutAttributeHeight"
          [] k = "CENTER_X" -> "NSLayoutAttributeCenterX"
          [] k = "CENTER_Y" -> "NSLayoutAttributeCenterY"]

\* lines 37-41
_RELATION ==
    [k \in {"LTE", "EQUAL", "GTE"} |->
        CASE k = "LTE" -> "NSLayoutRelationLessThanOrEqual"
          [] k = "EQUAL" -> "NSLayoutRelationEqual"
          [] k = "GTE" -> "NSLayoutRelationGreaterThanOrEqual"]

Constraint(id, attr, related_attr, relation) ==
    [id |-> id, attr |-> attr, related_attr |-> related_attr, relation |-> relation]

\* the Constraint objects handed to constrain
ConstraintObjects ==
    { Constraint(1, Attr(1, "WIDTH", 2, 4), Attr(2, "WIDTH", 1, 0), "EQUAL"),
      Constraint(2, Attr(1, "HEIGHT", 1, 30), NoAttr, "GTE"),
      Constraint(3, Attr(2, "LEFT", 3, 1), Attr(1, "RIGHT", 2, 5), "LTE"),
      Constraint(4, Attr(2, "TOP", -2, 3), Attr(1, "BOTTOM", 1, 0), "EQUAL"),
      Constraint(5, Attr(1, "WIDTH", 0, 1), Attr(2, "WIDTH", 1, 0), "EQUAL"),
      Constraint(6, Attr(1, "BASELINE", 1, 0), Attr(2, "TOP", 1, 0), "EQUAL"),
      Constraint(7, Attr(1, "TOP", 1, 0), Attr(2, "BASELINE", 1, 0), "EQUAL"),
      Constraint(8, Attr(1, "LEFT", 1, 0), NoAttr, "NOT_EQUAL"),
      Constraint(9, Attr(1, "WIDTH", 2, 4), Attr(2, "WIDTH", 1, 0), "EQUAL") }

ConstraintIds == {c.id : c \in ConstraintObjects}

ContainerCall(op, arg, raised) == [op |-> op, arg |-> arg, raised |-> raised]

\* lines 43-52
ContainerInit ==
    /\ children = <<>>
    /\ subviews = <<>>
    /\ app_set = {}
    /\ constraints = [c \in {} |-> 0]
    /\ native_constraints = <<>>
    /\ impl_of = [i \in ConstraintIds |-> None]
    /\ made = 0
    /\ clast = ContainerCall("__init__", 0, NotRaised)

\* add inserting the widget at the front of self.children
add_prepend(widget) ==
    /\ Len(children) < MaxChildren
    /\ children' = <<widget>> \o children
    /\ app_set' = app_set \cup {widget}
    /\ subviews' = Append(subviews, widget)
    /\ clast' = ContainerCall("add", widget, NotRaised)
    /\ UNCHANGED <<constraints, native_constraints, impl_of, made>>

\* lines 54-57
add(widget) ==
    /\ Len(children) < MaxChildren
    /\ children' = Append(children, widget)
    /\ app_set' = app_set \cup {widget}
    /\ subviews' = Append(subviews, widget)
    /\ clast' = ContainerCall("add", widget, NotRaised)
    /\ UNCHANGED <<constraints, native_constraints, impl_of, made>>

\* constrain without the guard of lines 61-62
never_constrained(constraint) == FALSE

\* line 61: constraint in self.constraints
already_constrained(constraint) == constraint \in DOMAIN constraints

\* lines 71-72 with the floor division of Python 2
normalized_floor(attr, related_attr) ==
    [multiplier |-> floor_division(related_attr.multiplier, attr.multiplier),
     constant |-> floor_division(related_attr.constant - attr.constant, attr.multiplier)]

\* lines 71-72, for attr.multiplier # 0
normalized(attr, related_attr) ==
    [multiplier |-> true_division(related_attr.multiplier, attr.multiplier),
     constant |-> true_division(related_attr.constant - attr.constant, attr.multiplier)]

\* lines 64-86: the exception the call raises before the native constraint
\* is constructed, or the arguments the native constructor receives
native_call(constraint) ==
    LET attr == constraint.attr
        related == constraint.related_attr
        binary == related # NoAttr
    IN  IF binary /\ attr.multiplier = 0
        THEN [raised |-> "ZeroDivisionError"]
        ELSE IF attr.identifier \notin DOMAIN _IDENTIFIER
        THEN [raised |-> "KeyError"]
        ELSE IF constraint.relation \notin DOMAIN _RELATION
        THEN [raised |-> "KeyError"]
        ELSE IF related.identifier \notin DOMAIN _IDENTIFIER
        THEN [raised |-> "KeyError"]
        ELSE LET n == IF binary
                      THEN normalized(attr, related)
                      ELSE [multiplier |-> <<attr.multiplier, 1>>,
                            constant |-> <<attr.constant, 1>>]
             IN  [raised |-> NotRaised,
                  item |-> attr.widget,
                  attribute |-> _IDENTIFIER[attr.identifier],
                  relatedBy |-> _RELATION[constraint.relation],
                  toItem |-> related.widget,
                  toAttribute |-> _IDENTIFIER[related.identifier],
                  multiplier |-> n.multiplier,
                  constant |-> n.constant]

\* constrain storing the constraint before the native constraint is built
constrain_store_first(constraint) ==
    LET r == native_call(constraint)
        h == made + 1
    IN  IF already_constrained(constraint)
        THEN /\ clast' = ContainerCall("constrain", constraint.id, NotRaised)
             /\ UNCHANGED <<children, subviews, app_set, constraints,
                            native_constraints, impl_of, made>>
        ELSE /\ constraints' = [c \in DOMAIN constraints \cup {constraint} |->
                                   IF c = constraint THEN h ELSE constraints[c]]
             /\ clast' = ContainerCall("constrain", constraint.id, r.raised)
             /\ UNCHANGED <<children, subviews, app_set>>
             /\ IF r.raised # NotRaised
                THEN UNCHANGED <<native_constraints, impl_of, made>>
                ELSE /\ made' = h
                     /\ impl_of' = [impl_of EXCEPT ![constraint.id] = h]
                     /\ native_constraints' =
                           Append(native_constraints, [handle |-> h, of |-> constraint.id, args |-> r])

\* lines 59-89
constrain(constraint) ==
    LET r == native_call(constraint)
        h == made + 1
    IN  IF already_constrained(constraint)
        THEN /\ clast' = ContainerCall("constrain", constraint.id, NotRaised)
             /\ UNCHANGED <<children, subviews, app_set, constraints,
                            native_constraints, impl_of, made>>
        ELSE IF r.raised # NotRaised
        THEN /\ clast' = ContainerCall("constrain", constraint.id, r.raised)
             /\ UNCHANGED <<children, subviews, app_set, constraints,
                            native_constraints, impl_of, made>>
        ELSE /\ made' = h
             /\ impl_of' = [impl_of EXCEPT ![constraint.id] = h]
             /\ native_constraints' =
                   Append(native_constraints, [handle |-> h, of |-> constraint.id, args |-> r])
             /\ constraints' = [c \in DOMAIN constraints \cup {constraint} |->
                                   IF c = constraint THEN h ELSE constraints[c]]
             /\ clast' = ContainerCall("constrain", constraint.id, NotRaised)
             /\ UNCHANGED <<children, subviews, app_set>>

Add ==
    /\ \E widget \in ContainerWidgets : add(widget)
    /\ UNCHANGED vars

Constrain ==
    /\ \E constraint \in ConstraintObjects : constrain(constraint)
    /\ UNCHANGED vars

ContainerNext ==
    \/ Add
    \/ Constrain

\* the Cocoa container created, beside an option container left alone
ContainerStart == ContainerInit /\ Init /\ max_items = MinCapacity

SpecContainer == ContainerStart /\ [][ContainerNext]_allvars

\* the option container created, beside a Cocoa container left alone
Start == Init /\ ContainerInit

Spec == Start /\ [][Next]_allvars

\* ---- properties -------------------------------------------------------------
\* the step just taken was a call of op
Called(op) == calls' = calls + 1 /\ last'.op = op

HasItem(option) == option.menu_item # None

\* the widgets of a list of options, in list order
WidgetsOf(opts) == [i \in 1 .. Len(opts) |-> opts[i].widget]

\* exactly the options at positions below max_items own a menu item
PrefixPopulated(opts) ==
    \A i \in Positions(opts) : HasItem(At(opts, i)) <=> (i < max_items)

\* C1: after any sequence of add_option and remove_option calls (with indices
\* inside the list), an option has a menu item if and only if its position is
\* less than max_items.
C1_MenuItemIffVisible == in_range => PrefixPopulated(options)

\* C2: add_option(index) with index < max_items that makes the list longer
\* than max_items evicts the option that was at position max_items - 1 before
\* the insert: its native item is removed and its menu_item becomes None, the
\* new option receives a native item, and no other option's menu_item
\* changes.  Checked for calls made in a state where exactly the first
\* max_items options own an item.
C2_EvictsPreviouslyLastVisible ==
    [][ ( /\ Called("add_option")
          /\ in_range'
          /\ PrefixPopulated(options)
          /\ last'.index < max_items
          /\ Len(options') > max_items )
        => LET index == last'.index
               shifted(j) == IF j >= index THEN j + 1 ELSE j
           IN  /\ last'.raised = NotRaised
               /\ At(options, max_items - 1).menu_item \notin DOMAIN menu'
               /\ At(options', max_items).menu_item = None
               /\ HasItem(At(options', index))
               /\ At(options', index).menu_item \in DOMAIN menu'
               /\ At(options', index).menu_item \notin DOMAIN menu
               /\ \A j \in Positions(options) :
                     j # max_items - 1 =>
                        At(options', shifted(j)).menu_item = At(options, j).menu_item
      ]_vars

\* C3: add_option(index) with 0 <= index <= len(options) never raises: the
\* list grows by one with the new option at position index, the entries at
\* positions >= index move right by one, and exceeding max_items only warns.
C3_AddNeverRejected ==
    [][ ( /\ Called("add_option")
          /\ last'.index <= Len(options) )
        => LET index == last'.index
           IN  /\ last'.raised = NotRaised
               /\ Len(options') = Len(options) + 1
               /\ At(options', index).widget = widgets'
               /\ \A j \in Positions(options) :
                     At(options', IF j >= index THEN j + 1 ELSE j).widget
                        = At(options, j).widget
               /\ Len(options') > max_items => last'.warned
      ]_vars

\* C4: remove_option(index) removes the native item of options[index] and
\* deletes the entry; if at least max_items entries remain, the option now at
\* position max_items - 1 had no menu item before the call and has one
\* afterwards.  Checked for calls made in a state where exactly the first
\* max_items options own an item.
C4_RemoveRepopulatesMenulessOnly ==
    [][ ( /\ Called("remove_option")
          /\ in_range
          /\ PrefixPopulated(options) )
        => LET index == last'.index
               \* where the option now at max_items - 1 was before the call
               before == IF index <= max_items - 1 THEN max_items ELSE max_items - 1
           IN  /\ At(options, index).menu_item \notin DOMAIN menu'
               /\ WidgetsOf(options') = WidgetsOf(list_del(options, index))
               /\ Len(options') >= max_items =>
                     /\ ~ HasItem(At(options, before))
                     /\ HasItem(At(options', max_items - 1))
                     /\ At(options', max_items - 1).menu_item \in DOMAIN menu'
      ]_vars

\* the state after adding options A, B, C, D (widgets 1, 2, 3, 4) at indices
\* 0, 1, 2, 3 in that order with max_items = 3: four widgets were created,
\* all four are in the list in creation order, every index was in range
AfterABCD ==
    /\ max_items = 3
    /\ in_range
    /\ widgets = 4
    /\ WidgetsOf(options) = <<1, 2, 3, 4>>

\* C5 as stated: after A, B, C, D, option C has lost its native item and D
\* has none; remove_option(0) then leaves B, C, D with D's item populated.
C5_AsStated ==
    [][ (AfterABCD /\ Called("remove_option") /\ last'.index = 0)
        => /\ ~ HasItem(At(options, 2))
           /\ ~ HasItem(At(options, 3))
           /\ WidgetsOf(options') = <<2, 3, 4>>
           /\ HasItem(At(options', 2))
      ]_vars

\* C5 (amended): with max_items = 3, after adding A, B, C, D at indices 0, 1,
\* 2, 3, option C (position 2) still owns its native item and D has none;
\* remove_option(0) then leaves the list B, C, D and populates the item of
\* slot max_items - 1 = 2, that is of D.
C5_OverflowThenRemove ==
    [][ (AfterABCD /\ Called("remove_option") /\ last'.index = 0)
        => /\ HasItem(At(options, 2))
           /\ At(options, 2).menu_item \in DOMAIN menu
           /\ ~ HasItem(At(options, 3))
           /\ WidgetsOf(options') = <<2, 3, 4>>
           /\ HasItem(At(options', 2))
           /\ At(options', 2).menu_item \in DOMAIN menu'
           /\ At(options', 2).menu_item \notin DOMAIN menu
      ]_vars

C5_Witness ==
    /\ max_items = 3
    /\ in_range
    /\ widgets = 4
    /\ last.op = "remove_option"
    /\ last.index = 0
    /\ WidgetsOf(options) = <<2, 3, 4>>
    /\ HasItem(At(options, 2))

\* C6: add_option(index) with index >= max_items leaves the new option
\* without a native item, creates no native entry, changes no existing
\* option's menu_item, warns, and still grows the list by one.
C6_BeyondCapacityMenuless ==
    [][ (Called("add_option") /\ last'.index >= max_items)
        => LET index == last'.index
               pos == IF index > Len(options) THEN Len(options) ELSE index
           IN  /\ last'.raised = NotRaised
               /\ last'.warned
               /\ menu' = menu
               /\ created' = created
               /\ Len(options') = Len(options) + 1
               /\ At(options', pos).widget = widgets'
               /\ At(options', pos).menu_item = None
               /\ \A j \in Positions(options) :
                     At(options', IF j >= pos THEN j + 1 ELSE j) = At(options, j)
      ]_vars

C6_Witness ==
    /\ in_range
    /\ last.op = "add_option"
    /\ last.index = max_items
    /\ Len(options) = max_items + 1
    /\ At(options, max_items).widget = widgets
    /\ At(options, max_items).menu_item = None
    /\ \A i \in 0 .. (max_items - 1) : HasItem(At(options, i))

\* C7 as stated: add_option on an empty list makes the new option's widget the
\* active content for any index argument; on a non-empty list the active
\* content is unchanged.
C7_AsStated ==
    [][ Called("add_option")
        => IF Len(options) = 0
           THEN last'.raised = NotRaised /\ content' = widgets'
           ELSE content' = content
      ]_vars

\* C7 (amended): add_option on an empty list with index 0, or with any index
\* >= max_items, makes the new option's widget the active content; with
\* 0 < index < max_items the call raises IndexError and the active content
\* stays as it was; on a non-empty list the active content is unchanged.
C7_FirstOptionSelected ==
    [][ Called("add_option")
        => IF Len(options) = 0
           THEN IF last'.index = 0 \/ last'.index >= max_items
                THEN last'.raised = NotRaised /\ content' = widgets'
                ELSE last'.raised = "IndexError" /\ content' = content
           ELSE content' = content
      ]_vars

C7_Witness ==
    /\ last.op = "add_option"
    /\ last.index = 0
    /\ Len(options) = 1
    /\ widgets = 2
    /\ content = 2
    /\ At(options, 0).widget = 2

\* C8: in every reachable state get_current_tab_index completes without
\* failing and returns the index of the option whose native item is checked,
\* or none when no option's item is checked.
C8_CurrentTabNeverFails ==
    (in_range /\ PrefixPopulated(options))
    => /\ get_current_tab_index.raised = NotRaised
       /\ LET v == get_current_tab_index.value
          IN  IF \E i \in Positions(options) :
                    HasItem(At(options, i)) /\ menu[At(options, i).menu_item].checked
              THEN /\ v \in Positions(options)
                   /\ HasItem(At(options, v))
                   /\ menu[At(options, v).menu_item].checked
              ELSE v = -1

\* C9: set_current_tab_index(i) with i >= max_items warns and changes
\* nothing: the checked state of every native item, the options list and the
\* active content stay as they were.
C9_OutOfRangeTabRefused ==
    [][ (Called("set_current_tab_index") /\ last'.index >= max_items)
        => /\ last'.warned
           /\ last'.raised = NotRaised
           /\ menu' = menu
           /\ options' = options
           /\ content' = content
      ]_vars

C9_Witness ==
    /\ last.op = "set_current_tab_index"
    /\ last.index = max_items
    /\ last.warned
    /\ Len(options) > max_items
    /\ \E h \in DOMAIN menu : menu[h].checked

\* C10: for an option with menu_item = None, set_option_text(i, t) updates
\* only that option's shadow text: no native item is created or modified, no
\* other option changes, and get_option_text(i) then returns t, the shadow
\* value.
C10_MenulessTextShadowOnly ==
    [][ \A i \in Positions(options), t \in Texts :
          ( /\ Called("set_option_text")
            /\ last'.index = i
            /\ last'.value = t
            /\ ~ HasItem(At(options, i)) )
          => /\ menu' = menu
             /\ created' = created
             /\ options' = [options EXCEPT ![i + 1].text = t]
             /\ get_option_text(i)' = t
             /\ get_option_text(i)' = At(options', i).text
      ]_vars

C10_Witness ==
    /\ last.op = "set_option_text"
    /\ last.value = "b"
    /\ ~ HasItem(At(options, last.index))
    /\ At(options, last.index).text = "b"
    /\ \E j \in Positions(options) : At(options, j).text = "a"
    /\ \A h \in DOMAIN menu : menu[h].title = "a"

\* the native constraints attached to the view for the constraint c
AttachedFor(c) ==
    {i \in DOMAIN native_constraints : native_constraints[i].of = c.id}

\* the Constraint object the last constrain call was given
ConstrainedLast(c) == clast.op = "constrain" /\ clast.arg = c.id

\* C11: constrain is idempotent. Every registered Constraint has exactly one
\* native constraint attached to the native view, however often constrain
\* was called with it; a constrain call with a Constraint that is already
\* registered attaches nothing; and no call replaces the handle the
\* constraint map holds for a Constraint.
C11_ConstrainIdempotent ==
    [][ /\ \A c \in DOMAIN constraints :
              /\ c \in DOMAIN constraints'
              /\ constraints'[c] = constraints[c]
        /\ \A c \in DOMAIN constraints' :
              /\ Cardinality(AttachedFor(c)') = 1
              /\ \A i \in AttachedFor(c)' :
                    native_constraints'[i].handle = constraints'[c]
        /\ \A c \in DOMAIN constraints :
              ConstrainedLast(c)' => native_constraints' = native_constraints
      ]_allvars

\* constrain was called again with a Constraint registered earlier: the
\* handle it holds is older than the newest native constraint
C11_Witness ==
    \E c \in DOMAIN constraints :
        /\ ConstrainedLast(c)
        /\ clast.raised = NotRaised
        /\ constraints[c] < made
        /\ Cardinality(AttachedFor(c)) = 1

\* the Constraint object with the given id
ConstraintOf(id) == CHOOSE c \in ConstraintObjects : c.id = id

\* C12: for a constraint with a related attribute the native constructor
\* receives multiplier' = related.multiplier / attr.multiplier and
\* constant' = (related.constant - attr.constant) / attr.multiplier as exact
\* quotients; for attr (2, 4) related to (1, 0) it receives 1/2 and -2.
C12_ExactNormalization ==
    \A i \in DOMAIN native_constraints :
        LET args == native_constraints[i].args
            attr == ConstraintOf(native_constraints[i].of).attr
            related == ConstraintOf(native_constraints[i].of).related_attr
        IN  related # NoAttr =>
                /\ args.multiplier[2] > 0
                /\ args.constant[2] > 0
                /\ args.multiplier[1] * attr.multiplier =
                       related.multiplier * args.multiplier[2]
                /\ args.constant[1] * attr.multiplier =
                       (related.constant - attr.constant) * args.constant[2]
                /\ ( /\ attr.multiplier = 2 /\ attr.constant = 4
                     /\ related.multiplier = 1 /\ related.constant = 0 )
                   => /\ args.multiplier = <<1, 2>>
                      /\ args.constant = <<-2, 1>>

\* the constraint attr (2, 4) related to (1, 0) reached the native
\* constructor with multiplier 1/2 and constant -2
C12_Witness ==
    \E i \in DOMAIN native_constraints :
        /\ native_constraints[i].of = 1
        /\ native_constraints[i].args.multiplier = <<1, 2>>
        /\ native_constraints[i].args.constant = <<-2, 1>>

\* the options owning the native item h
OwnersOf(h) == {i \in Positions(options) : At(options, i).menu_item = h}

\* every native entry is the menu_item of exactly one option, and every
\* non-null menu_item is an entry of the native menu
OneToOne ==
    /\ \A h \in DOMAIN menu : Cardinality(OwnersOf(h)) = 1
    /\ \A i \in Positions(options) :
          HasItem(At(options, i)) => At(options, i).menu_item \in DOMAIN menu

\* is_option_enabled returns every option's shadow enabled flag, the value
\* last given to set_option_enabled (True if never set)
EnabledInSync ==
    \A i \in Positions(options) : is_option_enabled(i) = At(options, i).enabled

\* list and native menu agree: the first max_items options, and only they,
\* own an item, one entry each, with the enabled state of the option
Consistent == PrefixPopulated(options) /\ OneToOne /\ EnabledInSync

\* C13: after any sequence of add_option and remove_option calls the native
\* menu never holds more than max_items entries.  Checked step by step: no
\* call with indices inside the list, made when list and menu agree, leaves
\* more than max_items entries.
C13_MenuWithinCapacity ==
    [][ (in_range' /\ Consistent) => Cardinality(DOMAIN menu') <= max_items ]_vars

\* C14: the native menu entries and the non-null menu_item handles are in
\* one-to-one correspondence: every native entry is the menu_item of exactly
\* one option, and every non-null menu_item is an entry of the native menu.
\* Checked step by step from states where list and menu agree.
C14_MenuOneToOne ==
    [][ (in_range' /\ Consistent) => OneToOne' ]_vars

\* C15: is_option_enabled(i) returns the value last given to
\* set_option_enabled for the option (True if never set), through evictions
\* and re-creations of its native item.  Checked step by step from states
\* where list and menu agree.
C15_EnabledSurvivesRepopulate ==
    [][ (in_range' /\ Consistent) => EnabledInSync' ]_vars

\* C16 as stated: the active content is unset or the widget of an option that
\* is currently in the options list.
C16_AsStated ==
    in_range =>
        \/ content = None
        \/ \E i \in Positions(options) : At(options, i).widget = content

\* C16 (amended): the active content starts unset and changes only when an
\* option is selected (add_option on an empty list, select_option, or a
\* handled native selection event), to the widget of that option, which is in
\* the list at that moment; remove_option never changes it, so the widget of
\* a removed option stays the active content until another selection.
C16_ContentIsLastSelected ==
    [][ /\ Called("remove_option") => content' = content
        /\ content' # content =>
              /\ \E i \in Positions(options') : At(options', i).widget = content'
              /\ \/ Called("add_option") /\ Len(options) = 0 /\ content' = widgets'
                 \/ /\ Called("select_option")
                    /\ content' = At(options, last'.index).widget
                 \/ /\ Called("onNavigationItemSelected")
                    /\ \E k \in Positions(options) :
                          /\ At(options, k).menu_item = last'.index
                          /\ content' = At(options, k).widget
      ]_vars

\* the selected option was removed and its widget is still the content
C16_Witness ==
    /\ in_range
    /\ last.op = "remove_option"
    /\ content # None
    /\ Len(options) >= 1
    /\ \A i \in Positions(options) : At(options, i).widget # content

\* the native menu shows item g before item h: smaller order key first,
\* earlier creation first among equal keys
ShownBefore(g, h) ==
    \/ menu[g].order < menu[h].order
    \/ menu[g].order = menu[h].order /\ g < h

\* C17: for any two options at list positions i < j that both have native
\* items, the item of the option at i is shown before the item of the option
\* at j.
C17_MenuInListOrder ==
    (in_range /\ PrefixPopulated(options)) =>
        \A i, j \in Positions(options) :
            (i < j /\ HasItem(At(options, i)) /\ HasItem(At(options, j)))
            => ShownBefore(At(options, i).menu_item, At(options, j).menu_item)

\* C18: a native item-selected event for an item owned by the option at
\* position k makes options[k].widget the active content and is reported as
\* handled; an event for an item owned by no option is reported as not
\* handled and changes neither the active content nor the options list.
C18_SelectionEvent ==
    [][ Called("onNavigationItemSelected") =>
          /\ options' = options
          /\ \A k \in Positions(options) :
                ( /\ At(options, k).menu_item = last'.index
                  /\ \A j \in 0 .. (k - 1) : At(options, j).menu_item # last'.index )
                => /\ content' = At(options, k).widget
                   /\ last'.value = "True"
          /\ (\A k \in Positions(options) : At(options, k).menu_item # last'.index)
                => /\ content' = content
                   /\ last'.value = "False"
      ]_vars

\* an event for the item of the second option made its widget the content
C18_Witness ==
    /\ last.op = "onNavigationItemSelected"
    /\ last.value = "True"
    /\ Len(options) >= 2
    /\ At(options, 1).menu_item = last.index
    /\ content = At(options, 1).widget
    /\ content # At(options, 0).widget

\* C19: set_current_tab_index(i) with i < max_items and i < len(options)
\* completes without failing, marks the native item of options[i] checked,
\* and leaves the active content and the options list unchanged.
C19_SetCurrentTabChecks ==
    [][ ( /\ Called("set_current_tab_index")
          /\ in_range
          /\ last'.index < max_items
          /\ last'.index < Len(options) )
        => /\ last'.raised = NotRaised
           /\ HasItem(At(options, last'.index))
           /\ menu'[At(options, last'.index).menu_item].checked
           /\ content' = content
           /\ options' = options
      ]_vars

\* C20: a constrain call that fails on an unknown attribute identifier, an
\* unknown relation value or a zero attr.multiplier of a binary constraint
\* registers nothing: the constraint map, the native constraints of the view
\* and the constraint's own handle are as before, the constraint is not a
\* key of the map, and a constrain call with it is never skipped as a
\* duplicate: it fails again.
C20_FailedConstrainRegistersNothing ==
    [][ \A c \in ConstraintObjects :
          /\ (ConstrainedLast(c)' /\ clast'.raised # NotRaised) =>
                /\ clast'.raised \in {"KeyError", "ZeroDivisionError"}
                /\ constraints' = constraints
                /\ native_constraints' = native_constraints
                /\ impl_of' = impl_of
                /\ made' = made
                /\ c \notin DOMAIN constraints'
                /\ impl_of'[c.id] = None
          /\ (ConstrainedLast(c)' /\ native_call(c).raised # NotRaised) =>
                clast'.raised = native_call(c).raised
      ]_allvars

\* a constrain call failed on a container that has constraints registered
C20_Witness ==
    /\ clast.op = "constrain"
    /\ clast.raised \in {"KeyError", "ZeroDivisionError"}
    /\ DOMAIN constraints # {}
    /\ Len(native_constraints) = Cardinality(DOMAIN constraints)

\* C21: the state of the Container only grows. Every step extends children
\* by at most one widget appended at the end, so the children already there
\* keep their places; the constraint map keeps every key with the handle it
\* held; the native constraints attached to the view are as many as the keys
\* of the map; add leaves the constraint map as it was and constrain leaves
\* children as they were.
C21_ContainerOnlyGrows ==
    [][ /\ Len(children') \in {Len(children), Len(children) + 1}
        /\ SubSeq(children', 1, Len(children)) = children
        /\ \A c \in DOMAIN constraints :
              /\ c \in DOMAIN constraints'
              /\ constraints'[c] = constraints[c]
        /\ Len(native_constraints) = Cardinality(DOMAIN constraints)
        /\ Len(native_constraints') = Cardinality(DOMAIN constraints')
        /\ clast'.op = "add" =>
              /\ constraints' = constraints
              /\ children' = Append(children, clast'.arg)
        /\ clast'.op = "constrain" => children' = children
      ]_allvars

\* two different children were added around constrain calls that registered
\* several constraints, and the last call was an add
C21_Witness ==
    /\ Len(children) = 2
    /\ children[1] # children[2]
    /\ Cardinality(DOMAIN constraints) >= 2
    /\ Len(native_constraints) = Cardinality(DOMAIN constraints)
    /\ clast.op = "add"
    /\ clast.arg = children[2]

====
